---- MODULE Spec2Model ----
(***************************************************************************)
(* Model of the two batch scripts of sentiment-signal-automation:          *)
(*   legalbandi_monitor.py : fetch listings -> filter -> HTML report mail  *)
(*   send_signal_email.py  : fetch news/events -> score -> chart -> mail   *)
(* One run of one script is one behaviour; every external call (HTTP,      *)
(* model completion, SMTP, process environment) is a nondeterministic      *)
(* input chosen where the code performs the call.                          *)
(***************************************************************************)
EXTENDS Integers, Sequences, FiniteSets, TLC

VARIABLES
    script,            \* which script's main() this run executes
    api_key,           \* module-level api_key = os.getenv('OPENAI_API_KEY', '')
    pc,                \* position of main()
    fetched,           \* legalbandi: number of BANDI_SOURCES already scanned
    fetch_failures,    \* number of fetches that ended in the non-200 / except branch
    all_bandi,         \* legalbandi main: all_bandi
    reply,             \* the model reply seen by the last filter / analyze call
    bandi_pertinenti,  \* legalbandi main: bandi_pertinenti
    news,              \* sentiment main: news
    events,            \* sentiment main: events
    sentiment_data,    \* sentiment main: sentiment_data
    chart,             \* what create_sentiment_chart drew
    mail,              \* what the mailer call of this run did
    exit_status,       \* status passed to sys.exit, or 1 after an uncaught exception
    exc,               \* the uncaught exception that ended the run, or "none"
    raised_in          \* the function whose frame that exception left first

vars == <<script, api_key, pc, fetched, fetch_failures, all_bandi, reply,
          bandi_pertinenti, news, events, sentiment_data, chart, mail,
          exit_status, exc, raised_in>>

----------------------------------------------------------------------------
(* Bounds of the model *)

\* records a page yields for one source before the per-source cap
MaxParsed == 1
\* entries one RSS feed yields
MaxEntries == 1
\* high-impact rows the calendar page yields
MaxEvents == 1
\* scores the chart is drawn for: -MaxAbsScore .. MaxAbsScore
MaxAbsScore == 110

(* Program constants *)
PerSourceCap == 5
FeedEntryCap == 20
EventCap == 5
LinkTextCap == 80
DefaultSmtpPort == 587

NoExit == 0 - 1

----------------------------------------------------------------------------
(* Strings as sequences of characters, for lower() and the `in` operator *)

UpperAlpha == <<"A","B","C","D","E","F","G","H","I","J","K","L","M",
                "N","O","P","Q","R","S","T","U","V","W","X","Y","Z">>
LowerAlpha == <<"a","b","c","d","e","f","g","h","i","j","k","l","m",
                "n","o","p","q","r","s","t","u","v","w","x","y","z">>

\* str.lower() on one character
LowerChar(c) ==
    IF \E i \in 1..Len(UpperAlpha) : UpperAlpha[i] = c
    THEN LowerAlpha[CHOOSE i \in 1..Len(UpperAlpha) : UpperAlpha[i] = c]
    ELSE c

\* str.lower()
Lower(s) == [i \in 1..Len(s) |-> LowerChar(s[i])]

\* sub in s   (substring test)
Contains(s, sub) ==
    \E k \in 0..(Len(s) - Len(sub)) :
        \A j \in 1..Len(sub) : s[k + j] = sub[j]

\* the characters of the listing titles the model draws from
Chars(t) ==
    CASE t = "Avviso COLLABORATORE legale" ->
           <<"A","v","v","i","s","o"," ","C","O","L","L","A","B","O","R","A","T","O","R","E"," ","l","e","g","a","l","e">>
      [] t = "Concorso dirigente avvocato" ->
           <<"C","o","n","c","o","r","s","o"," ","d","i","r","i","g","e","n","t","e"," ","a","v","v","o","c","a","t","o">>
      [] t = "Avvocato consulente esterno Comune" ->
           <<"A","v","v","o","c","a","t","o"," ","c","o","n","s","u","l","e","n","t","e"," ","e","s","t","e","r","n","o"," ","C","o","m","u","n","e">>
      [] t = "Concorso avvocato consulenti legali" ->
           <<"C","o","n","c","o","r","s","o"," ","a","v","v","o","c","a","t","o"," ","c","o","n","s","u","l","e","n","t","i"," ","l","e","g","a","l","i">>
      [] t = "Bando incarico professionale avvocato" ->
           <<"B","a","n","d","o"," ","i","n","c","a","r","i","c","o"," ","p","r","o","f","e","s","s","i","o","n","a","l","e"," ","a","v","v","o","c","a","t","o">>
      [] t = "Selezione avvocato dirigente ufficio legale" ->
           <<"S","e","l","e","z","i","o","n","e"," ","a","v","v","o","c","a","t","o"," ","d","i","r","i","g","e","n","t","e"," ","u","f","f","i","c","i","o"," ","l","e","g","a","l","e">>

----------------------------------------------------------------------------
(* legalbandi_monitor.py : sources and the fetcher *)

BANDI_SOURCES == <<
    [name |-> "ConcorsiPubblici.com", url |-> "https://www.concorsipubblici.com/concorsi/occupazione/pro/avvocato-581"],
    [name |-> "Concorsi.it",          url |-> "https://www.concorsi.it/concorsi-pubblici/avvocato"],
    [name |-> "Ministero Giustizia",  url |-> "https://www.giustizia.it/giustizia/page/it/concorsi_esami_selezioni_assunzioni"] >>

\* len(url) of the urls a record can carry
UrlLen(u) ==
    CASE u = "https://www.concorsipubblici.com/concorsi/occupazione/pro/avvocato-581" -> 70
      [] u = "https://www.concorsi.it/concorsi-pubblici/avvocato-comune-di-roma-avviso-incarichi-legali-2026" -> 95
      [] u = "https://www.giustizia.it/giustizia/page/it/concorsi_esami_selezioni_assunzioni" -> 78

\* The titles each source's parser can append: the structural parser takes any
\* heading text; the Concorsi.it parser only link texts with 'avvocato' in
\* text.lower() and len(text) > 20; the generic parser only texts with
\* 'avvocato'/'legale', a listing word and 30 < len(text) < 300.
PageTitles(i) ==
    CASE i = 1 -> {"Avviso COLLABORATORE legale", "Concorso dirigente avvocato"}
      [] i = 2 -> {"Avvocato consulente esterno Comune", "Concorso avvocato consulenti legali"}
      [] i = 3 -> {"Bando incarico professionale avvocato", "Selezione avvocato dirigente ufficio legale"}

\* the url the parser of source i stores in a record
RecordUrl(i) ==
    IF i = 2
    THEN "https://www.concorsi.it/concorsi-pubblici/avvocato-comune-di-roma-avviso-incarichi-legali-2026"
    ELSE BANDI_SOURCES[i].url

\* the dict appended by a parser
ListingRecord(i, t) ==
    [source |-> BANDI_SOURCES[i].name, title |-> t, url |-> RecordUrl(i),
     found_date |-> "today"]

\* seq[:n]
Take(s, n) == IF Len(s) <= n THEN s ELSE SubSeq(s, 1, n)

SeqsUpTo(S, n) == UNION {[1..k -> S] : k \in 0..n}

\* the lists `bandi` the parsing of a 200 response of source i can build
ParsedLists(i) ==
    {[k \in 1..Len(ts) |-> ListingRecord(i, ts[k])] : ts \in SeqsUpTo(PageTitles(i), MaxParsed)}

\* fetch_bandi_from_source: the value returned for each outcome of the request
FetchResult(outcome, bandi) ==
    CASE outcome = "raises" -> <<>>
      [] outcome = "non200" -> <<>>
      [] outcome = "ok"     -> Take(bandi, PerSourceCap)

----------------------------------------------------------------------------
(* The model completion call and the decoded reply *)

\* a decoded JSON scalar: t is its type, n its number (for a float: the
\* value times 100), s its text
JInt(k)   == [t |-> "int",   n |-> k, s |-> ""]
JFloat(h) == [t |-> "float", n |-> h, s |-> ""]
JStr(x)   == [t |-> "str",   n |-> 0, s |-> x]
JNull     == [t |-> "null",  n |-> 0, s |-> ""]
Absent    == [t |-> "absent", n |-> 0, s |-> ""]

IsNumber(v) == v.t \in {"int", "float"}
\* the value of a JSON number, times 100
Times100(v) == IF v.t = "int" THEN v.n * 100 ELSE v.n

\* the integers a reply array can hold
IndexPool == {0 - 1, 0, 1, 2, 3}
\* the elements a reply array can hold: integers, a string, the float 1.5
ElemPool == {JInt(k) : k \in IndexPool} \cup {JStr("uno"), JFloat(150)}
MaxReplyLen == MaxParsed + 1

\* A reply of the completion call, as the try block of the filter sees it:
\*   raise   : create() raised (network, authentication, timeout)
\*   notjson : json.loads raised on the stripped content
\*   array / object / number / null : the decoded value; items are an array's
\*             elements, or an object's keys (what iterating a dict yields)
EmptyObj == [stance |-> Absent, score |-> Absent, confidence |-> Absent,
             conclusion |-> Absent]
BandiReply(k, its) == [kind |-> k, items |-> its, obj |-> EmptyObj]
NoReply == BandiReply("none", <<>>)
BandiReplies ==
    {BandiReply("raise", <<>>), BandiReply("notjson", <<>>),
     BandiReply("number", <<>>), BandiReply("null", <<>>),
     BandiReply("object", <<>>), BandiReply("object", <<JStr("indices")>>)}
    \cup {BandiReply("array", its) : its \in SeqsUpTo(ElemPool, MaxReplyLen)}

\* With an empty key the request cannot authenticate: create() raises.
RepliesFor(key, pool) == IF key = "" THEN {r \in pool : r.kind = "raise"} ELSE pool

----------------------------------------------------------------------------
(* filter_bandi_with_openai *)

keywords == <<
    <<"c","o","l","l","a","b","o","r","a","t","o","r","e">>,
    <<"c","o","l","l","a","b","o","r","a","z","i","o","n","e">>,
    <<"c","o","n","s","u","l","e","n","t","e">>,
    <<"c","o","n","s","u","l","e","n","z","a">>,
    <<"l","i","b","e","r","o"," ","f","o","r","o">>,
    <<"e","s","t","e","r","n","o">>,
    <<"p","r","o","f","e","s","s","i","o","n","a","l","e">> >>

\* any(kw in title for kw in keywords): the test without the lower()
TitleHasKeywordCaseSensitive(t) ==
    \E k \in 1..Len(keywords) : Contains(Chars(t), keywords[k])

\* any(kw in title.lower() for kw in keywords)
TitleHasKeyword(t) ==
    \E k \in 1..Len(keywords) : Contains(Lower(Chars(t)), keywords[k])

\* the test above, tabulated once for the titles of the model
AllTitles == UNION {PageTitles(i) : i \in 1..Len(BANDI_SOURCES)}
KeywordTable == [t \in AllTitles |-> TitleHasKeyword(t)]

\* any(kw in b['title'].lower() for kw in keywords)
KeywordMatch(b) == KeywordTable[b.title]

\* [b for b in all_bandi if any(...)]
KeywordFallback(batch) == SelectSeq(batch, KeywordMatch)

\* the guard with the lower bound off by one
IndexGuardFromZero(i, N) == 0 <= i /\ i <= N * 100

\* 0 < i <= len(all_bandi), for a number i given times 100
IndexGuard(i, N) == 0 < i /\ i <= N * 100

\* lst[k] for a Python int k: a negative k counts from the end
PyIndexInRange(lst, k) == -Len(lst) <= k /\ k < Len(lst)
PyIndex(lst, k) == IF k >= 0 THEN lst[k + 1] ELSE lst[Len(lst) + k + 1]

\* One element of the comprehension [all_bandi[i-1] for i in selected_indices
\* if 0 < i <= len(all_bandi)]: the exception it raises, "skip" or "take"
ElemStep(batch, e) ==
    IF ~IsNumber(e) THEN "TypeError"                   \* 0 < i on a str
    ELSE IF ~IndexGuard(Times100(e), Len(batch)) THEN "skip"
    ELSE IF e.t # "int" THEN "TypeError"               \* list index must be an int
    ELSE IF ~PyIndexInRange(batch, e.n - 1) THEN "IndexError"
    ELSE "take"

\* the comprehension's value when no element raises
RECURSIVE Selected(_, _)
Selected(batch, items) ==
    IF items = <<>> THEN <<>>
    ELSE LET e == Head(items)
             rest == Selected(batch, Tail(items))
         IN  IF ElemStep(batch, e) = "take"
             THEN <<PyIndex(batch, e.n - 1)>> \o rest
             ELSE rest

\* the first element of the comprehension that raises, or 0
FirstRaising(batch, items) ==
    LET bad == {k \in 1..Len(items) : ElemStep(batch, items[k]) \notin {"skip", "take"}}
    IN  IF bad = {} THEN 0 ELSE CHOOSE k \in bad : \A m \in bad : k <= m

\* the exception the try block of filter_bandi_with_openai raises, or "none"
FilterTryException(batch, r) ==
    CASE r.kind = "raise"   -> "APIError"
      [] r.kind = "notjson" -> "JSONDecodeError"
      [] r.kind \in {"number", "null"} -> "TypeError"     \* not iterable
      [] OTHER ->
           IF FirstRaising(batch, r.items) = 0 THEN "none"
           ELSE ElemStep(batch, r.items[FirstRaising(batch, r.items)])

\* an except clause that names only the API and JSON errors
CatchesApiAndJsonOnly(e) == e \in {"APIError", "JSONDecodeError"}

\* except Exception as e: every exception class raised here derives from it
Catches(e) ==
    e \in {"APIError", "JSONDecodeError", "TypeError", "IndexError",
           "AttributeError", "ValueError"}

Returned(v) == [raised |-> "none", value |-> v]
Raised(e) == [raised |-> e, value |-> <<>>]

\* filter_bandi_with_openai(all_bandi), given the reply of the completion
\* call: the list it returns, or the exception that leaves it
FilterBandi(batch, r) ==
    IF batch = <<>> THEN Returned(<<>>)
    ELSE LET e == FilterTryException(batch, r)
         IN  IF e = "none" THEN Returned(Selected(batch, r.items))
             ELSE IF Catches(e) THEN Returned(KeywordFallback(batch))
             ELSE Raised(e)

----------------------------------------------------------------------------
(* Process environment and the SMTP session, shared by both mailers *)

\* os.getenv(name) of a variable that is not set
Unset == "<unset>"
\* the values an environment variable can have: not set, set but empty, set
EnvValues(v) == {Unset, "", v}

\* truth value of a str-or-None
Truthy(v) == v # Unset /\ v # ""
\* a or b
PyOr(a, b) == IF Truthy(a) THEN a ELSE b

\* the values of SMTP_PORT: not set, a decimal number, set but empty
PortValues == {Unset, "465", ""}
\* whether int(os.getenv('SMTP_PORT', '587')) raises ValueError
PortRaises(v) == v \notin {Unset, "465"}
\* int(os.getenv('SMTP_PORT', '587'))
PortOf(v) == IF v = Unset THEN DefaultSmtpPort ELSE 465

\* How the with-block of the SMTP session ends: "sent", or the call that raised
SmtpOutcomes == {"sent", "connect", "starttls", "login", "send_message"}

NoDoc == [kind |-> "none"]
NoMail == [fn |-> "none", sender_email |-> Unset, sender_password |-> Unset,
           smtp_port |-> 0, doc |-> NoDoc, smtp_opened |-> FALSE,
           smtp_failed_at |-> "none", returned |-> "none"]

\* int() raised ValueError on the port, before the credential check
MailRaised(f, e, p) ==
    [fn |-> f, sender_email |-> e, sender_password |-> p, smtp_port |-> 0,
     doc |-> NoDoc, smtp_opened |-> FALSE, smtp_failed_at |-> "none",
     returned |-> "raised"]

\* the mailer returned before building the message: credentials not configured
MailNotConfigured(f, e, p, port) ==
    [fn |-> f, sender_email |-> e, sender_password |-> p, smtp_port |-> port,
     doc |-> NoDoc, smtp_opened |-> FALSE, smtp_failed_at |-> "none",
     returned |-> "False"]

\* the mailer built the message and ran the SMTP try block with outcome o
MailAttempted(f, e, p, port, d, o) ==
    [fn |-> f, sender_email |-> e, sender_password |-> p, smtp_port |-> port,
     doc |-> d, smtp_opened |-> TRUE,
     smtp_failed_at |-> IF o = "sent" THEN "none" ELSE o,
     returned |-> IF o = "sent" THEN "True" ELSE "False"]

\* not sender_email or not sender_password
CredentialsMissing(e, p) == ~Truthy(e) \/ ~Truthy(p)

\* What a mailer call can do once the environment is read and the port
\* parsed: it returns False before any connection when a credential is
\* missing, else it renders the document d and runs the SMTP session, which
\* ends in one of SmtpOutcomes
Mailer(f, e, p, port, d) ==
    IF CredentialsMissing(e, p)
    THEN {MailNotConfigured(f, e, p, port)}
    ELSE {MailAttempted(f, e, p, port, d, o) : o \in SmtpOutcomes}

----------------------------------------------------------------------------
(* legalbandi_monitor.py : send_email_report and main *)

Min(a, b) == IF a <= b THEN a ELSE b

\* one <div> of bandi_html
ReportBlock(i, bando) ==
    [num |-> i, title |-> bando.title, source |-> bando.source,
     href |-> bando.url, link_text_len |-> Min(UrlLen(bando.url), LinkTextCap),
     found_date |-> bando.found_date]

\* the non-empty branch rendered for an empty list too
RenderReportAlwaysBlocks(bandi, total_found) ==
    [kind |-> "report", notice |-> FALSE, total |-> total_found,
     count |-> Len(bandi),
     blocks |-> [i \in 1..Len(bandi) |-> ReportBlock(i, bandi[i])]]

\* html_body of send_email_report
RenderReport(bandi, total_found) ==
    IF bandi = <<>>
    THEN [kind |-> "report", notice |-> TRUE, total |-> total_found,
          count |-> 0, blocks |-> <<>>]
    ELSE [kind |-> "report", notice |-> FALSE, total |-> total_found,
          count |-> Len(bandi),
          blocks |-> [i \in 1..Len(bandi) |-> ReportBlock(i, bandi[i])]]

----------------------------------------------------------------------------
(* send_signal_email.py : fetchers *)

FEEDS == <<"CNBC", "MarketWatch">>

\* the dict appended to all_news for one entry of feed i
NewsItem(i) == [source |-> FEEDS[i], title |-> "headline"]
\* the dict appended to events for one high-impact row
EventItem == [currency |-> "USD", event |-> "CPI", impact |-> "HIGH"]

\* the entries one feed contributes: feed.entries[:20]
FeedItems(i, n) == Take([k \in 1..n |-> NewsItem(i)], FeedEntryCap)

\* fetch_forexfactory_events: the value returned for each outcome
ForexResult(outcome, n) ==
    IF outcome = "raises" THEN <<>> ELSE Take([k \in 1..n |-> EventItem], EventCap)

----------------------------------------------------------------------------
(* send_signal_email.py : analyze_sentiment_with_openai *)

SentimentReply(k, o) == [kind |-> k, items |-> <<>>, obj |-> o]

StancePool == {Absent, JStr("RISK-OFF")}
ScoreInts == {0 - 250, 0 - 30, 10, 30, 150}
ScorePool == {Absent, JNull, JStr("high"), JFloat(2950)} \cup {JInt(k) : k \in ScoreInts}
ConfidencePool == {Absent, JFloat(80), JStr("high")}
ConclusionPool == {Absent, JStr("Mercati in calo")}

\* the JSON objects a reply can decode to
ReplyObjects ==
    [stance : StancePool, score : ScorePool, confidence : ConfidencePool,
     conclusion : ConclusionPool]

\* the replies of the completion call, as the try block of the analyzer sees
\* them: create() raised, json.loads raised, or the decoded value
SentimentReplies ==
    {SentimentReply(k, EmptyObj) : k \in {"raise", "notjson", "array", "number"}}
    \cup {SentimentReply("object", o) : o \in ReplyObjects}

\* result.get(key, default) that returns the default for every key
DictGetDefaultOnly(o, key, default) == default

\* result.get(key, default)
DictGet(o, key, default) == IF o[key].t = "absent" THEN default ELSE o[key]

\* the dict returned by the except branch
SentimentError ==
    [stance |-> JStr("NEUTRAL"), score |-> JInt(0), confidence |-> JFloat(0),
     conclusion |-> JStr("Errore nell'analisi: ...")]

\* the exception the try block of analyze_sentiment_with_openai raises, or
\* "none": the call or json.loads raised, or the decoded value has no .get
AnalyzeTryException(r) ==
    CASE r.kind = "raise"   -> "APIError"
      [] r.kind = "notjson" -> "JSONDecodeError"
      [] r.kind = "object"  -> "none"
      [] OTHER              -> "AttributeError"

\* analyze_sentiment_with_openai(news, events), given the reply of the call:
\* the dict it returns, or the exception that leaves it
AnalyzeSentiment(r) ==
    LET e == AnalyzeTryException(r)
    IN  IF e = "none"
        THEN Returned(
               [stance     |-> DictGet(r.obj, "stance", JStr("NEUTRAL")),
                score      |-> DictGet(r.obj, "score", JInt(0)),
                confidence |-> DictGet(r.obj, "confidence", JFloat(50)),
                conclusion |-> DictGet(r.obj, "conclusion", JStr("Analisi non disponibile"))])
        ELSE IF Catches(e) THEN Returned(SentimentError)
        ELSE Raised(e)

NoSentiment == [stance |-> Absent, score |-> Absent, confidence |-> Absent,
                conclusion |-> Absent]

\* format(v, '.2f'): "ok", or the exception it raises
FormatFloat(v) ==
    IF IsNumber(v) THEN "ok"
    ELSE IF v.t = "str" THEN "ValueError" ELSE "TypeError"

----------------------------------------------------------------------------
(* send_signal_email.py : create_sentiment_chart *)

\* the bands with the upper threshold inclusive
ColourUpperInclusive(v) ==
    IF Times100(v) < (0 - 30) * 100 THEN "red"
    ELSE IF Times100(v) <= 30 * 100 THEN "orange"
    ELSE "green"

\* 'red' if score < -30 else 'orange' if score < 30 else 'green'
Colour(v) ==
    IF Times100(v) < (0 - 30) * 100 THEN "red"
    ELSE IF Times100(v) < 30 * 100 THEN "orange"
    ELSE "green"

\* whether score < -30 raises TypeError
CompareRaises(v) == ~IsNumber(v)

NoChart == [drawn |-> FALSE, score |-> Absent, colour |-> "none"]
\* the bar drawn by ax.barh(['Sentiment Score'], [score], color=colors)
Chart(v) == [drawn |-> TRUE, score |-> v, colour |-> Colour(v)]

\* html_body of send_email_signal plus the inline image
RenderSignal(sd, news_count, events_count, ch) ==
    [kind |-> "signal", stance |-> sd.stance, score |-> sd.score,
     confidence |-> sd.confidence, conclusion |-> sd.conclusion,
     news_count |-> news_count, events_count |-> events_count,
     chart_colour |-> ch.colour]

----------------------------------------------------------------------------
(* The runs *)

Init ==
    /\ script \in {"legalbandi", "sentiment"}
    /\ api_key \in {"", "sk-test"}
    /\ pc = IF script = "legalbandi" THEN "fetch" ELSE "rss"
    /\ fetched = 0
    /\ fetch_failures = 0
    /\ all_bandi = <<>>
    /\ reply = NoReply
    /\ bandi_pertinenti = <<>>
    /\ news = <<>>
    /\ events = <<>>
    /\ sentiment_data = NoSentiment
    /\ chart = NoChart
    /\ mail = NoMail
    /\ exit_status = NoExit
    /\ exc = "none"
    /\ raised_in = "none"

\* an exception leaves main(): traceback, interpreter exit status 1
Uncaught(e, f) ==
    /\ pc' = "crashed"
    /\ exc' = e
    /\ raised_in' = f
    /\ exit_status' = 1

\* main() returns status to sys.exit
Return(status) ==
    /\ pc' = "done"
    /\ exit_status' = status
    /\ UNCHANGED <<exc, raised_in>>

(* legalbandi_monitor.py main: one iteration of the loop over BANDI_SOURCES *)
FetchBandi ==
    /\ script = "legalbandi" /\ pc = "fetch"
    /\ \E outcome \in {"raises", "non200", "ok"} :
       \E bandi \in (IF outcome = "ok" THEN ParsedLists(fetched + 1) ELSE {<<>>}) :
          /\ all_bandi' = all_bandi \o FetchResult(outcome, bandi)
          /\ fetch_failures' = fetch_failures + (IF outcome = "ok" THEN 0 ELSE 1)
    /\ fetched' = fetched + 1
    /\ pc' = IF fetched' < Len(BANDI_SOURCES) THEN "fetch"
             ELSE IF all_bandi' = <<>> THEN "report_empty" ELSE "filter"
    /\ UNCHANGED <<script, api_key, reply, bandi_pertinenti, news, events,
                   sentiment_data, chart, mail, exit_status, exc, raised_in>>

(* main: bandi_pertinenti = filter_bandi_with_openai(all_bandi) *)
FilterStep ==
    /\ script = "legalbandi" /\ pc = "filter"
    /\ \E r \in RepliesFor(api_key, BandiReplies) :
          LET res == FilterBandi(all_bandi, r)
          IN  /\ reply' = r
              /\ IF res.raised = "none"
                 THEN /\ bandi_pertinenti' = res.value
                      /\ pc' = "filtered"
                      /\ UNCHANGED <<exit_status, exc, raised_in>>
                 ELSE /\ Uncaught(res.raised, "filter_bandi_with_openai")
                      /\ UNCHANGED bandi_pertinenti
    /\ UNCHANGED <<script, api_key, fetched, fetch_failures, all_bandi, news,
                   events, sentiment_data, chart, mail>>

(* main: back from the filter (its locals are gone), the prints of lines    *)
(* 251-253                                                                  *)
AfterFilter ==
    /\ script = "legalbandi" /\ pc = "filtered"
    /\ reply' = NoReply
    /\ pc' = "report"
    /\ UNCHANGED <<script, api_key, fetched, fetch_failures, all_bandi,
                   bandi_pertinenti, news, events, sentiment_data, chart, mail,
                   exit_status, exc, raised_in>>

(* main: send_email_report(...) and return 0.  report_empty is the call     *)
(* send_email_report([], 0) of the `if not all_bandi` branch.               *)
SendEmailReport ==
    /\ script = "legalbandi" /\ pc \in {"report_empty", "report"}
    /\ \E ef \in EnvValues("sender@example.com"), se \in {Unset, "legacy@example.com"},
          ep \in {Unset, "app-password"}, sp \in {Unset, "legacy-password"},
          pv \in PortValues :
          LET sender_email    == PyOr(ef, se)
              sender_password == PyOr(ep, sp)
              arg_bandi == IF pc = "report_empty" THEN <<>> ELSE bandi_pertinenti
              arg_total == IF pc = "report_empty" THEN 0 ELSE Len(all_bandi)
          IN  IF PortRaises(pv)
              THEN /\ mail' = MailRaised("send_email_report", sender_email,
                                           sender_password)
                   /\ Uncaught("ValueError", "send_email_report")
              ELSE /\ mail' \in Mailer("send_email_report", sender_email,
                                        sender_password, PortOf(pv),
                                        RenderReport(arg_bandi, arg_total))
                   /\ Return(0)
    /\ UNCHANGED <<script, api_key, fetched, fetch_failures, all_bandi, reply,
                   bandi_pertinenti, news, events, sentiment_data, chart>>

(* send_signal_email.py main: fetch_rss_news, one iteration over feeds.     *)
(* Entries appended before an exception stay in all_news.                   *)
FetchRss ==
    /\ script = "sentiment" /\ pc = "rss"
    /\ \E n \in 0..MaxEntries, raises \in BOOLEAN :
          /\ news' = news \o FeedItems(fetched + 1, n)
          /\ fetch_failures' = fetch_failures + (IF raises THEN 1 ELSE 0)
    /\ fetched' = fetched + 1
    /\ pc' = IF fetched' < Len(FEEDS) THEN "rss" ELSE "forex"
    /\ UNCHANGED <<script, api_key, all_bandi, reply, bandi_pertinenti, events,
                   sentiment_data, chart, mail, exit_status, exc, raised_in>>

(* main: events = fetch_forexfactory_events() *)
FetchForex ==
    /\ script = "sentiment" /\ pc = "forex"
    /\ \E outcome \in {"raises", "ok"} :
       \E n \in (IF outcome = "ok" THEN 0..MaxEvents ELSE {0}) :
          /\ events' = ForexResult(outcome, n)
          /\ fetch_failures' = fetch_failures + (IF outcome = "ok" THEN 0 ELSE 1)
    /\ fetched' = fetched + 1
    /\ pc' = "analyze"
    /\ UNCHANGED <<script, api_key, all_bandi, reply, bandi_pertinenti, news,
                   sentiment_data, chart, mail, exit_status, exc, raised_in>>

(* main: sentiment_data = analyze_sentiment_with_openai(news, events) *)
Analyze ==
    /\ script = "sentiment" /\ pc = "analyze"
    /\ \E r \in RepliesFor(api_key, SentimentReplies) :
          LET res == AnalyzeSentiment(r)
          IN  /\ reply' = r
              /\ IF res.raised = "none"
                 THEN /\ sentiment_data' = res.value
                      /\ pc' = "analyzed"
                      /\ UNCHANGED <<exit_status, exc, raised_in>>
                 ELSE /\ Uncaught(res.raised, "analyze_sentiment_with_openai")
                      /\ UNCHANGED sentiment_data
    /\ UNCHANGED <<script, api_key, fetched, fetch_failures, all_bandi,
                   bandi_pertinenti, news, events, chart, mail>>

(* main: back from the analyzer (its locals are gone), the print of line    *)
(* 269 that formats sentiment_data['confidence'] with :.2f                  *)
PrintSentiment ==
    /\ script = "sentiment" /\ pc = "analyzed"
    /\ reply' = NoReply
    /\ IF FormatFloat(sentiment_data.confidence) = "ok"
       THEN /\ pc' = "chart"
            /\ UNCHANGED <<exit_status, exc, raised_in>>
       ELSE Uncaught(FormatFloat(sentiment_data.confidence), "main")
    /\ UNCHANGED <<script, api_key, fetched, fetch_failures, all_bandi,
                   bandi_pertinenti, news, events, sentiment_data, chart, mail>>

(* main: chart_bytes = create_sentiment_chart(sentiment_data) *)
CreateChart ==
    /\ script = "sentiment" /\ pc = "chart"
    /\ IF CompareRaises(sentiment_data.score)
       THEN /\ Uncaught("TypeError", "create_sentiment_chart")
            /\ UNCHANGED chart
       ELSE /\ chart' = Chart(sentiment_data.score)
            /\ pc' = "send"
            /\ UNCHANGED <<exit_status, exc, raised_in>>
    /\ UNCHANGED <<script, api_key, fetched, fetch_failures, all_bandi, reply,
                   bandi_pertinenti, news, events, sentiment_data, mail>>

(* main: success = send_email_signal(...); return 0 if success else 1 *)
SendEmailSignal ==
    /\ script = "sentiment" /\ pc = "send"
    /\ \E ef \in EnvValues("sender@example.com"), ep \in {Unset, "app-password"},
          pv \in PortValues :
          IF PortRaises(pv)
          THEN /\ mail' = MailRaised("send_email_signal", ef, ep)
               /\ Uncaught("ValueError", "send_email_signal")
          ELSE /\ mail' \in Mailer("send_email_signal", ef, ep, PortOf(pv),
                                    RenderSignal(sentiment_data, Len(news),
                                                 Len(events), chart))
               /\ Return(IF mail'.returned = "True" THEN 0 ELSE 1)
    /\ UNCHANGED <<script, api_key, fetched, fetch_failures, all_bandi, reply,
                   bandi_pertinenti, news, events, sentiment_data, chart>>

Next ==
    \/ FetchBandi
    \/ FilterStep
    \/ AfterFilter
    \/ SendEmailReport
    \/ FetchRss
    \/ FetchForex
    \/ Analyze
    \/ PrintSentiment
    \/ CreateChart
    \/ SendEmailSignal

Spec == Init /\ [][Next]_vars

----------------------------------------------------------------------------
(* The chart function on its own: every integer score of the range, as the  *)
(* reply {"score": k} gives it to create_sentiment_chart                    *)

InitChart ==
    /\ script = "sentiment"
    /\ api_key = "sk-test"
    /\ pc = "chart"
    /\ fetched = Len(FEEDS) + 1
    /\ fetch_failures = 0
    /\ all_bandi = <<>>
    /\ reply = NoReply
    /\ bandi_pertinenti = <<>>
    /\ news = <<>>
    /\ events = <<>>
    /\ \E k \in (0 - MaxAbsScore)..MaxAbsScore :
          sentiment_data =
              AnalyzeSentiment(SentimentReply("object",
                  [EmptyObj EXCEPT !.score = JInt(k)])).value
    /\ chart = NoChart
    /\ mail = NoMail
    /\ exit_status = NoExit
    /\ exc = "none"
    /\ raised_in = "none"

NextChart == CreateChart

SpecChart == InitChart /\ [][NextChart]_vars

----------------------------------------------------------------------------
(* Properties *)

SentimentFields == {"stance", "score", "confidence", "conclusion"}

\* filter_bandi_with_openai([]) returns [] whatever the model would reply
EmptyBatchGivesEmptyList ==
    \A r \in BandiReplies : FilterBandi(<<>>, r) = Returned(<<>>)

\* C1: neither filter lets an exception leave it: whatever the model call
\* does (it raises, the reply is not JSON, the JSON is an object, a number,
\* a list with non-integers), filter_bandi_with_openai returns a list of
\* records of its batch (the empty list for the empty batch) and
\* analyze_sentiment_with_openai returns a dict with its four fields.
C1_FilterNeverPropagates ==
    /\ raised_in \notin {"filter_bandi_with_openai", "analyze_sentiment_with_openai"}
    /\ pc = "filtered" =>
          \A k \in 1..Len(bandi_pertinenti) :
             \E j \in 1..Len(all_bandi) : bandi_pertinenti[k] = all_bandi[j]
    /\ pc = "analyzed" =>
          \A f \in SentimentFields : sentiment_data[f].t # "absent"
    /\ EmptyBatchGivesEmptyList

\* C1 witness: the filter has returned on a reply array holding a string
C1_Witness ==
    /\ pc = "filtered"
    /\ reply.kind = "array"
    /\ \E k \in 1..Len(reply.items) : reply.items[k].t = "str"

\* C2 (as claimed): for every reply that decodes as JSON the score handed on
\* by analyze_sentiment_with_openai is an integer in [-100, 100].
C2_ScoreInDisplayRange ==
    (pc = "analyzed" /\ reply.kind \in {"object", "array", "number"}) =>
        /\ sentiment_data.score.t = "int"
        /\ 0 - 100 <= sentiment_data.score.n
        /\ sentiment_data.score.n <= 100

\* the lower-cased title contains one of the configured keywords
LowerTitleHasKeyword ==
    [t \in AllTitles |->
        \E k \in 1..Len(keywords) : Contains(Lower(Chars(t)), keywords[k])]

\* C3: when the model call raises or its reply is not JSON, the filter
\* returns exactly the records of the batch whose lower-cased title contains
\* a configured keyword, in input order.
C3_KeywordFallbackSelection ==
    (pc = "filtered" /\ reply.kind \in {"raise", "notjson"}) =>
        LET hits == {i \in 1..Len(all_bandi) : LowerTitleHasKeyword[all_bandi[i].title]}
            rank(i) == Cardinality({j \in hits : j <= i})
        IN  /\ Len(bandi_pertinenti) = Cardinality(hits)
            /\ \A i \in hits : bandi_pertinenti[rank(i)] = all_bandi[i]

\* C3 witness: the fallback kept the upper-case COLLABORATORE title and
\* dropped another record of the batch
C3_Witness ==
    /\ pc = "filtered"
    /\ reply.kind = "notjson"
    /\ Len(bandi_pertinenti) >= 1
    /\ Len(bandi_pertinenti) < Len(all_bandi)
    /\ bandi_pertinenti[1].title = "Avviso COLLABORATORE legale"

\* C4: for a reply that is a JSON array of integers, the selection is the
\* i-th record of the batch (1-based) for each index i of the reply with
\* 1 <= i <= N, in reply order; every other index is dropped.
C4_IndexSelection ==
    (pc = "filtered" /\ reply.kind = "array"
       /\ \A k \in 1..Len(reply.items) : reply.items[k].t = "int") =>
        LET inRange(e) == 1 <= e.n /\ e.n <= Len(all_bandi)
            kept == SelectSeq(reply.items, inRange)
        IN  bandi_pertinenti = [k \in 1..Len(kept) |-> all_bandi[kept[k].n]]

\* C4 witness: N = 1 and the reply [0, 2] gave the empty selection
C4_Witness ==
    /\ pc = "filtered"
    /\ Len(all_bandi) = 1
    /\ reply = BandiReply("array", <<JInt(0), JInt(2)>>)
    /\ bandi_pertinenti = <<>>

\* C5: for a reply that is a JSON object, each field absent from it gets its
\* default (stance NEUTRAL, score 0, confidence 0.5, conclusion "Analisi non
\* disponibile") and each field present is passed through unchanged.
C5_Defaulting ==
    (pc = "analyzed" /\ reply.kind = "object") =>
        LET default(f) ==
              CASE f = "stance"     -> [t |-> "str", n |-> 0, s |-> "NEUTRAL"]
                [] f = "score"      -> [t |-> "int", n |-> 0, s |-> ""]
                [] f = "confidence" -> [t |-> "float", n |-> 50, s |-> ""]
                [] f = "conclusion" -> [t |-> "str", n |-> 0, s |-> "Analisi non disponibile"]
        IN  \A f \in SentimentFields :
               sentiment_data[f] =
                  IF reply.obj[f].t = "absent" THEN default(f) ELSE reply.obj[f]

\* C5 witness: the reply {"stance": "RISK-OFF"} completed with the defaults
C5_Witness ==
    /\ pc = "analyzed"
    /\ reply.kind = "object"
    /\ reply.obj = [EmptyObj EXCEPT !.stance = JStr("RISK-OFF")]
    /\ sentiment_data.stance.s = "RISK-OFF"
    /\ sentiment_data.score = JInt(0)
    /\ sentiment_data.confidence = JFloat(50)

\* C6: for every integer score the chart is drawn (the function is total) in
\* one of three colours: red below -30, orange from -30 up to but not
\* including 30, green from 30 on.
C6_ColourBands ==
    /\ raised_in # "create_sentiment_chart"
    /\ pc = "send" => chart.drawn
    /\ chart.drawn =>
          LET x == chart.score.n
          IN  /\ chart.score.t = "int"
              /\ x < 0 - 30 => chart.colour = "red"
              /\ (0 - 30 <= x /\ x < 30) => chart.colour = "orange"
              /\ x >= 30 => chart.colour = "green"

\* C6 witness: the boundary score 30 drawn green
C6_Witness ==
    /\ chart.drawn
    /\ chart.score = JInt(30)
    /\ chart.colour = "green"

\* C7: the report document branches on the emptiness of the filtered set:
\* empty gives the zero-count notice with the total analyzed and no
\* per-record block; k > 0 records give k blocks numbered 1..k in order and
\* k as the pertinent count.
C7_ReportBranches ==
    mail.doc.kind = "report" =>
        LET k == Len(bandi_pertinenti)
            d == mail.doc
        IN  /\ d.total = Len(all_bandi)
            /\ k = 0 => (d.notice /\ d.count = 0 /\ d.blocks = <<>>)
            /\ k > 0 =>
                  /\ ~d.notice
                  /\ d.count = k
                  /\ Len(d.blocks) = k
                  /\ \A i \in 1..k :
                        /\ d.blocks[i].num = i
                        /\ d.blocks[i].title = bandi_pertinenti[i].title
                        /\ d.blocks[i].source = bandi_pertinenti[i].source

\* C7 witness: a non-empty batch, nothing pertinent: the notice is rendered
C7_Witness ==
    /\ mail.doc.kind = "report"
    /\ mail.doc.notice
    /\ mail.doc.total >= 2
    /\ mail.doc.blocks = <<>>

\* C8 (as claimed): a mailer called without a sender address or password
\* returns False without opening an SMTP session, and a mailer called with
\* both returns True or False, never raising.
C8_MailerReportsFailure ==
    mail.fn # "none" =>
        IF ~Truthy(mail.sender_email) \/ ~Truthy(mail.sender_password)
        THEN mail.returned = "False" /\ ~mail.smtp_opened
        ELSE mail.returned \in {"True", "False"}

\* The part of C8 that holds on every run: without a truthy sender address
\* and password no SMTP session is opened and the mailer does not return True.
C8_NoSessionWithoutCredentials ==
    (mail.fn # "none"
       /\ (~Truthy(mail.sender_email) \/ ~Truthy(mail.sender_password))) =>
        (~mail.smtp_opened /\ mail.returned # "True")

\* C9 (as claimed): a run exits 0 when the pipeline completes successfully
\* and non-zero when the mailer credentials or the model API key are missing.
C9_ExitStatus ==
    pc = "done" =>
        /\ (mail.returned = "True" /\ api_key # "") => exit_status = 0
        /\ (api_key = "" \/ ~Truthy(mail.sender_email)
                         \/ ~Truthy(mail.sender_password)) => exit_status # 0

\* C10 (as claimed): no outcome of an external call (fetch, model reply,
\* SMTP) ends a run with an uncaught exception: main reaches the mailer.
C10_NoCrashFromExternalCalls ==
    pc = "crashed" => raised_in \in {"send_email_report", "send_email_signal"}

\* C11 (as claimed): the filtered list is never longer than the batch it was
\* filtered from, and the pertinent count a rendered report shows never
\* exceeds the total analyzed it shows.
C11_PertinentAtMostTotal ==
    /\ pc \in {"filtered", "report", "done"} =>
          Len(bandi_pertinenti) <= Len(all_bandi)
    /\ mail.doc.kind = "report" => mail.doc.count <= mail.doc.total

\* The part of C11 that holds on every run: on the keyword-fallback path
\* (the call raised or the reply was not JSON) the list is no longer than
\* the batch.
C11_FallbackAtMostTotal ==
    (pc = "filtered" /\ reply.kind \in {"raise", "notjson"}) =>
        Len(bandi_pertinenti) <= Len(all_bandi)

====
